---- MODULE Spec2Model ----
(***************************************************************************)
(* Model of the file synchronisation engine of repo-files-sync:           *)
(* src/src/helpers.ts (createFilterFunc, buildMatcher, normalizePattern,  *)
(* readFilesRecursive, write, copy).                                       *)
(*                                                                         *)
(* Strings that are paths or glob patterns are modelled by the sequence   *)
(* of their '/'-separated segments: "d/a.txt" is <<"d", "a.txt">>, the    *)
(* empty string is <<"">>, a trailing slash is a trailing "" segment and  *)
(* an absolute path starts with a "" segment ("/cwd/tpl" is               *)
(* <<"", "cwd", "tpl">>).                                                  *)
(***************************************************************************)
EXTENDS Naturals, Sequences, FiniteSets

(* ---------------- bounds of the model ---------------- *)

\* most files of the source tree of a directory rule
MaxSrcFiles == 2
\* most files of the destination tree before copy() runs
MaxDestFiles == 2

(* ---------------- strings ---------------- *)

\* part.startsWith('.') (helpers.ts:32) and minimatch's dot:false test
StartsWithDot(name) == name \in {".", ".git", ".env", ".github"}

\* the suffix after the last '.' of a file name that has one
Extension(name) ==
  CASE name = "a.txt" -> "txt"
    [] name = "b.log" -> "log"
    [] OTHER -> ""

\* pattern.trim() of a one-segment string: whitespace-only strings become ''
Trim(str) == IF str \in {<<" ">>, <<"\t ">>} THEN <<"">> ELSE str

IsPrefix(p, q) == Len(p) <= Len(q) /\ SubSeq(q, 1, Len(p)) = p

Drop(q, n) == SubSeq(q, n + 1, Len(q))

\* path.isAbsolute
IsAbsolute(p) == Len(p) > 1 /\ p[1] = ""

\* the process working directory, an absolute path
Cwd == <<"", "cwd">>

\* path.resolve of a path under the working directory
Resolve(p) == IF IsAbsolute(p) THEN p ELSE Cwd \o p

\* path.join of a directory and a relative path (a trailing slash of the
\* directory is absorbed)
Join(dir, rel) == dir \o rel

\* path.posix.basename
Basename(p) == IF Len(p) = 0 THEN "" ELSE p[Len(p)]

(* ---------------- glob matching (Minimatch, dot: false) ---------------- *)

\* one pattern segment against one path segment
SegMatch(pseg, name) ==
  CASE pseg = "*"     -> name # "" /\ ~StartsWithDot(name)
    [] pseg = "*.txt" -> Extension(name) = "txt" /\ ~StartsWithDot(name)
    [] pseg = "*.log" -> Extension(name) = "log" /\ ~StartsWithDot(name)
    [] OTHER          -> pseg = name

RECURSIVE MatchOne(_, _)
\* Minimatch.matchOne: file segments against pattern segments; "**" swallows any
\* number of segments none of which starts with a dot
MatchOne(file, pat) ==
  IF Len(pat) = 0 THEN Len(file) = 0
  ELSE IF Len(file) = 0 THEN FALSE
  ELSE IF Head(pat) = "**"
    THEN IF Len(pat) = 1
           THEN \A i \in 1..Len(file) : ~StartsWithDot(file[i])
           ELSE \E k \in 0..(Len(file) - 1) :
                  /\ \A i \in 1..k : ~StartsWithDot(file[i])
                  /\ MatchOne(Drop(file, k), Tail(pat))
    ELSE SegMatch(Head(pat), Head(file)) /\ MatchOne(Tail(file), Tail(pat))

(* ---------------- normalizePattern, buildMatcher ---------------- *)

\* an optional list (string[] | undefined)
Undefined == [defined |-> FALSE, list |-> <<>>]

Some(list) == [defined |-> TRUE, list |-> list]

normalizePattern(pattern, sourceRoot) ==
  LET trimmed == Trim(pattern)
      posixPattern == IF Len(trimmed) > 1 /\ trimmed[1] = "." THEN Tail(trimmed) ELSE trimmed
  IN  IF trimmed = <<"">> THEN <<"">>
      ELSE IF IsPrefix(sourceRoot, posixPattern) /\ Len(posixPattern) > Len(sourceRoot)
        THEN Drop(posixPattern, Len(sourceRoot))
        ELSE posixPattern

\* pattern.endsWith('/') ? `${pattern}**` : pattern
patternToUse(pattern) ==
  IF Len(pattern) > 1 /\ pattern[Len(pattern)] = ""
    THEN SubSeq(pattern, 1, Len(pattern) - 1) \o <<"**">>
    ELSE pattern

\* the normalised, non-empty patterns, compiled; Undefined when none is left
buildMatcher(patterns, sourceRoot) ==
  IF ~patterns.defined \/ Len(patterns.list) = 0 THEN Undefined
  ELSE LET normalized == SelectSeq([i \in 1..Len(patterns.list) |->
                                       normalizePattern(patterns.list[i], sourceRoot)],
                                   LAMBDA p : p # <<"">>)
       IN  IF Len(normalized) = 0 THEN Undefined
           ELSE Some([i \in 1..Len(normalized) |-> patternToUse(normalized[i])])

\* the compiled matcher applied to one candidate string:
\* matchers.some((matcher) => matcher.match(target))
Matcher(compiled, target) ==
  \E i \in 1..Len(compiled.list) : MatchOne(target, compiled.list[i])

(* ---------------- file trees ---------------- *)

\* the root-relative file paths of the model
FilePaths ==
  { <<"a.txt">>, <<"b.log">>, <<"d">>, <<"d", "a.txt">>,
    <<".git", "config">>, <<"d", ".git", "config">> }

ProperPrefixes(p) == { SubSeq(p, 1, k) : k \in 0..(Len(p) - 1) }

\* the directories that hold the files of F
DirsOf(F) == UNION { ProperPrefixes(p) : p \in F }

\* no file of F lies under another file of F
Consistent(F) == \A p \in F : \A a \in ProperPrefixes(p) : a \notin F

\* directory trees of at most n files: a root directory, the files, the
\* directories that hold them and possibly the empty directory d
DirTrees(n) ==
  LET all == { [files |-> F, dirs |-> {<<>>} \cup DirsOf(F) \cup E] :
                 F \in { X \in SUBSET FilePaths : Cardinality(X) <= n /\ Consistent(X) },
                 E \in { {}, {<<"d">>} } }
  IN  { t \in all : t.files \cap t.dirs = {} }

\* a path that is one regular file
SingleFileTree == [files |-> {<<>>}, dirs |-> {}]

\* a path at which nothing exists
MissingTree == [files |-> {}, dirs |-> {}]

(* ---------------- file contents ---------------- *)

\* what the source holds at a path
SrcContent(p) == [kind |-> "src", of |-> p, ctx |-> {}]

\* what the destination holds at a path before the sync
OldContent(p) == [kind |-> "old", of |-> p, ctx |-> {}]

\* nunjucks.render: the template's text rendered under the keys of the context
Render(content, context) == [content EXCEPT !.kind = "rendered", !.ctx = context]

(* ---------------- the rule and the state ---------------- *)

\* the include lists a rule may carry
IncludeChoices ==
  { Undefined,
    Some(<<>>),
    Some(<< <<"*.txt">>, <<"", "cwd", "tpl", "b.log">> >>) }

\* the exclude lists a rule may carry
ExcludeChoices ==
  { Undefined,
    Some(<< <<" ">>, <<"\t ">> >>),
    Some(<< <<"**", "*.log">>, <<".", "d">>, <<"d", "">> >>) }

\* the source path copy() is given: absolute, or relative to the working directory
SrcChoices(isDirectory) ==
  IF isDirectory THEN { <<"", "cwd", "tpl">>, <<"tpl">> }
                 ELSE { <<"", "cwd", "a.txt">>, <<"a.txt">> }

\* item.repo, the metadata of the repository being synced
RepoKey == "repo"

VARIABLES
  rule,        \* the FileConfig and the arguments of copy(): isDirectory, src
  srcTree,     \* the source tree under src: files and directories
  dest,        \* the destination tree under dest: file path -> content
  destDirs,    \* the directories of the destination tree
  pc,          \* where copy() is
  todo,        \* the entries the running loop has still to visit
  shouldExist, \* the set of the same name of the orphan pass
  written,     \* the paths this call has written
  removed,     \* the paths this call has removed
  dest0,       \* the destination tree before the first call
  run,         \* 1 in the first call of copy(), 2 in the second
  first        \* the outcome of the first call

\* the state of copy()
copyVars == <<rule, srcTree, dest, destDirs, pc, todo, shouldExist, written, removed,
              dest0, run, first>>

VARIABLES
  listDir,       \* readFilesRecursive: the dir argument
  includeHidden, \* readFilesRecursive: the includeHidden argument
  listTree,      \* the tree under dir: files and directories
  entries,       \* the Dirents the loop has still to visit
  listed,        \* the files array
  listPc         \* where readFilesRecursive is

\* the state of readFilesRecursive()
listVars == <<listDir, includeHidden, listTree, entries, listed, listPc>>

VARIABLES
  array,          \* forEach: the array, here item.files of one repository
  index,          \* forEach: the loop index (from 1)
  procs,          \* for each entry, where its callback (processFile) is
  outcome,        \* the promise forEach returned: pending, resolved or rejected
  work,           \* the working tree of the target repository: what is at each dest
  staged,         \* the dests with staged, uncommitted changes
  commits,        \* the commits made, each named by the dest of its rule
  warnings,       \* the entries a warning was logged for
  commitEachFile  \* the COMMIT_EACH_FILE setting

\* the state of forEach() over the rules of one repository
orchVars == <<array, index, procs, outcome, work, staged, commits, warnings, commitEachFile>>

VARIABLES
  repos,           \* run: the repositories synced one after the other
  repoAt,          \* run: the index of the repository being synced (from 1)
  template,        \* the template setting of the rule as configured
  templateObj,     \* the object file.template refers to, shared by the repositories
  templateContext, \* copy: the templateContext local, a reference or an own object
  filesLeft,       \* copy: the files of the rule that are still to render
  renders,         \* the calls of nunjucks.render: repository index and context
  renderPc         \* where the run is

\* the state of the templated writes of one rule over the repositories
renderVars == <<repos, repoAt, template, templateObj, templateContext, filesLeft, renders, renderPc>>

VARIABLES
  configObject,  \* parseConfig: the entries of the configuration in the order visited
  result,        \* parseConfig: the RepoConfigs by result key, in insertion order
  cfgAt,         \* parseConfig: the index of the entry visited next (from 1)
  cfgPc          \* where parseConfig is

\* the state of parseConfig()
cfgVars == <<configObject, result, cfgAt, cfgPc>>

VARIABLES
  settings,  \* run: DRY_RUN, SKIP_PR, OVERWRITE_EXISTING_PR, SKIP_CLEANUP, COMMIT_EACH_FILE
  numRules,  \* run: the number of file rules of each repository
  repoLog,   \* run: for each repository its pull request, working directory and what was done
  git,       \* the fields of the one Git instance: existingPr, prBranch, workingDir
  proc,      \* processRepo: the locals existingPr and modified, the dirty tree, the rule index
  runAt,     \* run: the index of the repository being processed (from 1)
  runPc,     \* where processRepo and run are
  tmpDir     \* TMP_DIR exists

\* the state of run()
runVars == <<settings, numRules, repoLog, git, proc, runAt, runPc, tmpDir>>

\* the state outside copy()
outer == <<listVars, orchVars, renderVars, cfgVars, runVars>>

\* the state outside readFilesRecursive()
notList == <<copyVars, orchVars, renderVars, cfgVars, runVars>>

\* the state outside forEach()
notOrch == <<copyVars, listVars, renderVars, cfgVars, runVars>>

\* the state outside the templated writes
notRender == <<copyVars, listVars, orchVars, cfgVars, runVars>>

\* the state outside parseConfig()
notCfg == <<copyVars, listVars, orchVars, renderVars, runVars>>

\* the state outside run()
notRun == <<copyVars, listVars, orchVars, renderVars, cfgVars>>

vars == <<copyVars, outer>>

\* readFilesRecursive() is not under way
ListIdle ==
  /\ listDir = <<>>
  /\ includeHidden = FALSE
  /\ listTree = [files |-> {}, dirs |-> {}]
  /\ entries = {}
  /\ listed = {}
  /\ listPc = "idle"

\* forEach() is not under way
OrchIdle ==
  /\ array = <<>>
  /\ index = 1
  /\ procs = <<>>
  /\ outcome = "idle"
  /\ work = <<>>
  /\ staged = {}
  /\ commits = <<>>
  /\ warnings = {}
  /\ commitEachFile = FALSE

\* nothing outside copy() is under way
\* no templated write is under way
RenderIdle ==
  /\ repos = <<>>
  /\ repoAt = 1
  /\ template = [object |-> FALSE, vars |-> {}]
  /\ templateObj = {}
  /\ templateContext = [ref |-> "none", own |-> {}]
  /\ filesLeft = 0
  /\ renders = <<>>
  /\ renderPc = "idle"

\* parseConfig() is not under way
CfgIdle ==
  /\ configObject = <<>>
  /\ result = <<>>
  /\ cfgAt = 1
  /\ cfgPc = "idle"

\* run() is not under way
RunIdle ==
  /\ settings = [DRY_RUN |-> FALSE, SKIP_PR |-> FALSE, OVERWRITE_EXISTING_PR |-> FALSE,
                 SKIP_CLEANUP |-> FALSE, COMMIT_EACH_FILE |-> FALSE]
  /\ numRules = 0
  /\ repoLog = <<>>
  /\ git = [existingPr |-> 0, prBranch |-> 0, workingDir |-> 0]
  /\ proc = [existingPr |-> 0, modified |-> 0, dirty |-> FALSE, rule |-> 1]
  /\ runAt = 1
  /\ runPc = "idle"
  /\ tmpDir = FALSE

OuterIdle == ListIdle /\ OrchIdle /\ RenderIdle /\ CfgIdle /\ RunIdle

(* ---------------- createFilterFunc ---------------- *)

\* fs.existsSync(p) && fs.lstatSync(p).isDirectory() on the source side
SrcIsDirectory(absolutePath) ==
  LET top == Resolve(rule.src)
  IN  /\ IsPrefix(top, absolutePath)
      /\ Drop(absolutePath, Len(top)) \in srcTree.dirs

\* the strings tested against the patterns: [relative, basename], or [basename]
\* when relative is the empty string
Candidates(relative) ==
  IF Len(relative) = 0 THEN { <<"">> } ELSE { relative, <<Basename(relative)>> }

\* path.isAbsolute(filePath) ? filePath : path.join(root, filePath)
AbsolutePathOf(sourceRoot, filePath) ==
  IF IsAbsolute(filePath) THEN filePath ELSE Join(Resolve(sourceRoot), filePath)

\* toPosix(path.relative(root, absolutePath)) of a path under root
RelativeOf(sourceRoot, filePath) ==
  Drop(AbsolutePathOf(sourceRoot, filePath), Len(Resolve(sourceRoot)))

\* the function createFilterFunc(sourceRoot, exclude, include) returns, applied to filePath
filterFunc(sourceRoot, exclude, include, filePath) ==
  LET root == Resolve(sourceRoot)
      compiledExclude == buildMatcher(exclude, root)
      compiledInclude == buildMatcher(include, root)
      absolutePath == AbsolutePathOf(sourceRoot, filePath)
  IN  IF ~IsPrefix(root, absolutePath) THEN TRUE
      ELSE LET relative == RelativeOf(sourceRoot, filePath)
               candidates == Candidates(relative)
           IN  IF SrcIsDirectory(absolutePath) THEN TRUE
               ELSE IF compiledInclude.defined
                       /\ ~(\E c \in candidates : Matcher(compiledInclude, c)) THEN FALSE
               ELSE IF compiledExclude.defined
                       /\ (\E c \in candidates : Matcher(compiledExclude, c)) THEN FALSE
               ELSE TRUE

\* const filterFunc = createFilterFunc(src, exclude, file.include)
FilterFunc(filePath) == filterFunc(rule.src, rule.exclude, rule.include, filePath)

\* const shouldFilter = exclude !== undefined || file.include !== undefined
shouldFilter == rule.exclude.defined \/ rule.include.defined

\* the flag alone decides, whatever the shape of the rule
C11_Mutant_deleteOrphaned == rule.deleteOrphaned \/ rule.isDirectory

\* const deleteOrphaned = isDirectory && file.deleteOrphaned
deleteOrphaned == rule.isDirectory /\ rule.deleteOrphaned

(* ---------------- the destination file system ---------------- *)

\* fs.pathExists(path.join(dest, p))
PathExists(p) == p \in DOMAIN dest \/ p \in destDirs

\* the skip check dropped: an existing destination is never a reason to skip
C2_Mutant_shouldSkipDest(p) == FALSE

\* the skip check made once for the whole directory: skip every file when the
\* destination directory exists
C9_Mutant_shouldSkipDest(p) == IF rule.replace # FALSE THEN FALSE ELSE PathExists(<<>>)

\* const shouldSkipDest = async (destPath) => replace !== false ? false : fs.pathExists(destPath)
shouldSkipDest(p) == IF rule.replace # FALSE THEN FALSE ELSE PathExists(p)

\* fs.ensureDir(path.dirname(p)) succeeds: no directory on the way to p is a file
CanEnsureParent(p) == \A a \in ProperPrefixes(p) : a \notin DOMAIN dest

\* the copy refuses to overwrite (COPYFILE_EXCL, errorOnExist)
C6_Mutant_CanWriteFile(p) == CanEnsureParent(p) /\ ~PathExists(p)

\* a file can be written at p: its parents can be made and p is no directory
CanWriteFile(p) == CanEnsureParent(p) /\ p \notin destDirs

\* the files after p is written with content c
WithFile(files, p, c) == [q \in DOMAIN files \cup {p} |-> IF q = p THEN c ELSE files[q]]

\* the files after p is removed
WithoutFile(files, p) == [q \in DOMAIN files \ {p} |-> files[q]]

\* the enumeration without includeHidden: paths with a dot-segment are left out
C1_Mutant_SrcFileList == { p \in srcTree.files : \A i \in 1..Len(p) : ~StartsWithDot(p[i]) }

\* readFilesRecursive(dir, true) on the source: every file, hidden ones included
SrcFileList == srcTree.files

\* readFilesRecursive(dest, true) can list the destination: readdir needs a directory there
CanListDest == <<>> \in destDirs

\* the template context of write(): the declared variables, plus the repo key
TemplateContext == (IF rule.template = "vars" THEN {"name"} ELSE {}) \cup {RepoKey}

\* what a written file holds: the source bytes, or the rendered template
NewContent(p) ==
  IF rule.template # "false" THEN Render(SrcContent(p), TemplateContext) ELSE SrcContent(p)

(* ---------------- copy(): steps ---------------- *)

\* the error of the failing operation is swallowed: the loop is left and the
\* call goes on
C16_Mutant_Fail ==
  /\ pc' = (IF pc = "orphans" \/ todo = {} THEN "done" ELSE pc)
  /\ todo' = {}
  /\ UNCHANGED <<dest, destDirs, written, removed, shouldExist>>

\* the call ends by an exception
Fail ==
  /\ pc' = "failed"
  /\ todo' = {}
  /\ UNCHANGED <<dest, destDirs, written, removed, shouldExist>>

\* one file is written (fs.outputFile, or fs.ensureDir and fs.copyFile)
WriteStep(p, next, rest) ==
  /\ dest' = WithFile(dest, p, NewContent(p))
  /\ destDirs' = destDirs \cup ProperPrefixes(p)
  /\ written' = written \cup {p}
  /\ pc' = next
  /\ todo' = rest
  /\ UNCHANGED <<removed, shouldExist>>

\* nothing is written for this entry
SkipStep(next, rest) ==
  /\ pc' = next
  /\ todo' = rest
  /\ UNCHANGED <<dest, destDirs, written, removed, shouldExist>>

\* the branch of copy() the rule takes (helpers.ts:278-358)
Branch ==
  IF rule.template # "false"
    THEN IF rule.isDirectory THEN "renderDir" ELSE "renderFile"
    ELSE IF ~rule.isDirectory THEN "copyFile"
         ELSE IF rule.replace = FALSE THEN "copyNoReplace"
         ELSE IF shouldFilter THEN "copyFiltered"
         ELSE "copyBulk"

\* copy() is entered: the branch is chosen and the source is enumerated
Enter ==
  /\ pc = "start"
  /\ pc' = Branch
  /\ todo' = CASE Branch \in {"renderDir", "copyNoReplace", "copyFiltered"} -> SrcFileList
               [] Branch = "copyBulk" -> srcTree.dirs \cup srcTree.files
               [] OTHER -> {}
  /\ UNCHANGED <<outer, rule, srcTree, dest, destDirs, shouldExist, written, removed, dest0, run, first>>

\* template, directory: one iteration of the loop over srcFileList
RenderDirFile ==
  /\ pc = "renderDir"
  /\ \E srcFile \in todo :
       LET rest == todo \ {srcFile} IN
       IF ~FilterFunc(Join(rule.src, srcFile)) THEN SkipStep(pc, rest)
       ELSE IF shouldSkipDest(srcFile) THEN SkipStep(pc, rest)
       ELSE IF ~CanWriteFile(srcFile) THEN Fail
       ELSE WriteStep(srcFile, pc, rest)
  /\ UNCHANGED <<outer, rule, srcTree, dest0, run, first>>

\* template, single file
RenderFile ==
  /\ pc = "renderFile"
  /\ IF ~FilterFunc(rule.src) THEN SkipStep("done", {})
     ELSE IF shouldSkipDest(<<>>) THEN SkipStep("done", {})
     ELSE IF ~CanWriteFile(<<>>) THEN Fail
     ELSE WriteStep(<<>>, "done", {})
  /\ UNCHANGED <<outer, rule, srcTree, dest0, run, first>>

\* no template, single file: fs.copy(src, dest, shouldFilter ? { filter: filterFunc } : undefined)
CopyFile ==
  /\ pc = "copyFile"
  /\ IF shouldSkipDest(<<>>) THEN SkipStep("done", {})
     ELSE IF <<>> \in destDirs THEN Fail
     ELSE IF shouldFilter /\ ~FilterFunc(rule.src) THEN SkipStep("done", {})
     ELSE WriteStep(<<>>, "done", {})
  /\ UNCHANGED <<outer, rule, srcTree, dest0, run, first>>

\* no template, directory, replace false: one iteration of the loop over files
CopyNoReplaceFile ==
  /\ pc = "copyNoReplace"
  /\ \E relativeFile \in todo :
       LET rest == todo \ {relativeFile} IN
       IF shouldFilter /\ ~FilterFunc(Join(rule.src, relativeFile)) THEN SkipStep(pc, rest)
       ELSE IF shouldSkipDest(relativeFile) THEN SkipStep(pc, rest)
       ELSE IF ~CanWriteFile(relativeFile) THEN Fail
       ELSE WriteStep(relativeFile, pc, rest)
  /\ UNCHANGED <<outer, rule, srcTree, dest0, run, first>>

\* the loop copies every file of the list, whatever the filter says
C22_Mutant_CopyFilteredFile ==
  /\ pc = "copyFiltered"
  /\ \E relativeFile \in todo :
       LET rest == todo \ {relativeFile} IN
       IF ~CanWriteFile(relativeFile) THEN Fail
       ELSE WriteStep(relativeFile, pc, rest)
  /\ UNCHANGED <<outer, rule, srcTree, dest0, run, first>>

\* no template, directory, a filter: one iteration of the loop over files
CopyFilteredFile ==
  /\ pc = "copyFiltered"
  /\ \E relativeFile \in todo :
       LET rest == todo \ {relativeFile} IN
       IF ~FilterFunc(Join(rule.src, relativeFile)) THEN SkipStep(pc, rest)
       ELSE IF ~CanWriteFile(relativeFile) THEN Fail
       ELSE WriteStep(relativeFile, pc, rest)
  /\ UNCHANGED <<outer, rule, srcTree, dest0, run, first>>

\* no template, directory, no filter: fs.copy(src, dest) visits one entry of the
\* source tree, a directory before what it holds
CopyBulkEntry ==
  /\ pc = "copyBulk"
  /\ \E entry \in todo :
       /\ \A a \in ProperPrefixes(entry) : a \notin todo
       /\ LET rest == todo \ {entry} IN
          IF entry \in srcTree.dirs
            THEN IF entry \in DOMAIN dest THEN Fail
                 ELSE /\ destDirs' = destDirs \cup {entry}
                      /\ pc' = pc
                      /\ todo' = rest
                      /\ UNCHANGED <<dest, written, removed, shouldExist>>
            ELSE IF entry \in destDirs THEN Fail
                 ELSE WriteStep(entry, pc, rest)
  /\ UNCHANGED <<outer, rule, srcTree, dest0, run, first>>

\* const isInScope = (relativePath) => !shouldFilter || filterFunc(path.join(src, relativePath))
isInScope(relativePath) ==
  IF ~shouldFilter THEN TRUE ELSE FilterFunc(Join(rule.src, relativePath))

\* only the path .git itself is recognised, not what lies under it
C4_Mutant_IsGitPath(destFile) == destFile = <<".git">>

\* destFile.startsWith('.git/') || destFile === '.git'
IsGitPath(destFile) == Len(destFile) > 0 /\ destFile[1] = ".git"

\* the orphan pass is not sequenced after the loop: it may start while entries
\* of the copy/render loop are still to be visited
C12_Mutant_EndCopy ==
  /\ pc \in {"renderDir", "copyNoReplace", "copyFiltered", "copyBulk"}
  /\ IF ~deleteOrphaned THEN todo = {} /\ SkipStep("done", {})
     ELSE IF ~CanListDest THEN Fail
     ELSE /\ pc' = "orphans"
          /\ todo' = DOMAIN dest
          /\ shouldExist' = { filePath \in SrcFileList : isInScope(filePath) }
          /\ UNCHANGED <<dest, destDirs, written, removed>>
  /\ UNCHANGED <<outer, rule, srcTree, dest0, run, first>>

\* the copy/render loop is over: return, or enumerate both trees for the orphan pass
EndCopy ==
  /\ pc \in {"renderDir", "copyNoReplace", "copyFiltered", "copyBulk"}
  /\ todo = {}
  /\ IF ~deleteOrphaned THEN SkipStep("done", {})
     ELSE IF ~CanListDest THEN Fail
     ELSE /\ pc' = "orphans"
          /\ todo' = DOMAIN dest
          /\ shouldExist' = { filePath \in SrcFileList : isInScope(filePath) }
          /\ UNCHANGED <<dest, destDirs, written, removed>>
  /\ UNCHANGED <<outer, rule, srcTree, dest0, run, first>>

\* one iteration of the loop over destFileList
OrphanFile ==
  /\ pc = "orphans"
  /\ \E destFile \in todo :
       LET rest == todo \ {destFile} IN
       IF IsGitPath(destFile) THEN SkipStep(pc, rest)
       ELSE IF ~isInScope(destFile) THEN SkipStep(pc, rest)
       ELSE IF destFile \notin shouldExist
         THEN /\ dest' = WithoutFile(dest, destFile)
              /\ removed' = removed \cup {destFile}
              /\ pc' = pc
              /\ todo' = rest
              /\ UNCHANGED <<destDirs, written, shouldExist>>
         ELSE SkipStep(pc, rest)
  /\ UNCHANGED <<outer, rule, srcTree, dest0, run, first>>

\* the loop over destFileList is over: copy() returns
EndOrphans ==
  /\ pc = "orphans"
  /\ todo = {}
  /\ SkipStep("done", {})
  /\ UNCHANGED <<outer, rule, srcTree, dest0, run, first>>

(* ---------------- initial states ---------------- *)

\* what the template field of a rule may be: false, true, or an object of variables
TemplateChoices == {"false", "true", "vars"}

Rules ==
  { [isDirectory |-> isDir, src |-> src, template |-> t, replace |-> r,
     deleteOrphaned |-> o, include |-> inc, exclude |-> exc] :
      isDir \in BOOLEAN, src \in SrcChoices(TRUE) \cup SrcChoices(FALSE),
      t \in TemplateChoices, r \in BOOLEAN, o \in BOOLEAN,
      inc \in IncludeChoices, exc \in ExcludeChoices }

Init ==
  /\ rule \in { r \in Rules : r.src \in SrcChoices(r.isDirectory) }
  /\ srcTree \in (IF rule.isDirectory THEN DirTrees(MaxSrcFiles) ELSE {SingleFileTree})
  /\ dest0 \in DirTrees(MaxDestFiles) \cup {SingleFileTree, MissingTree}
  /\ dest = [p \in dest0.files |-> OldContent(p)]
  /\ destDirs = dest0.dirs
  /\ pc = "start"
  /\ todo = {}
  /\ shouldExist = {}
  /\ written = {}
  /\ removed = {}
  /\ run = 1
  /\ first = [pc |-> "none", files |-> <<>>, removed |-> {}]
  /\ OuterIdle

Next ==
  \/ Enter
  \/ RenderDirFile
  \/ RenderFile
  \/ CopyFile
  \/ CopyNoReplaceFile
  \/ CopyFilteredFile
  \/ CopyBulkEntry
  \/ EndCopy
  \/ OrphanFile
  \/ EndOrphans

Spec == Init /\ [][Next]_vars

(* ---------------- two calls of copy() ---------------- *)

\* the rule carries include/exclude lists that compile to no matcher at all
ZeroEffectivePatterns ==
  /\ shouldFilter
  /\ ~buildMatcher(rule.include, Resolve(rule.src)).defined
  /\ ~buildMatcher(rule.exclude, Resolve(rule.src)).defined

\* copy() has returned and is called again with the same arguments on the
\* destination it left (a second sync with unchanged source)
Again ==
  /\ pc = "done"
  /\ run = 1
  /\ run' = 2
  /\ first' = [pc |-> pc, files |-> dest, removed |-> removed]
  /\ pc' = "start"
  /\ todo' = {}
  /\ shouldExist' = {}
  /\ written' = {}
  /\ removed' = {}
  /\ UNCHANGED <<outer, rule, srcTree, dest, destDirs, dest0>>

\* copy() has ended for a rule whose lists hold no effective pattern, and is
\* called on the same source and the same initial destination for the same rule
\* with include and exclude undefined
Twin ==
  /\ pc \in {"done", "failed"}
  /\ run = 1
  /\ ZeroEffectivePatterns
  /\ run' = 2
  /\ first' = [pc |-> pc, files |-> dest, removed |-> removed]
  /\ rule' = [rule EXCEPT !.include = Undefined, !.exclude = Undefined]
  /\ dest' = [p \in dest0.files |-> OldContent(p)]
  /\ destDirs' = dest0.dirs
  /\ pc' = "start"
  /\ todo' = {}
  /\ shouldExist' = {}
  /\ written' = {}
  /\ removed' = {}
  /\ UNCHANGED <<outer, srcTree, dest0>>

NextTwice == Next \/ Again

SpecTwice == Init /\ [][NextTwice]_vars

NextTwin == Next \/ Twin

SpecTwin == Init /\ [][NextTwin]_vars

(* ---------------- vocabulary of the properties ---------------- *)

\* the first segment of the path is .git
UnderTopGit(p) == Len(p) > 0 /\ p[1] = ".git"

\* some segment of the path is .git
UnderAnyGit(p) == \E i \in 1..Len(p) : p[i] = ".git"

\* a directory rule without include and exclude
Unfiltered == ~rule.include.defined /\ ~rule.exclude.defined

\* the file paths of a tree outside the top-level .git
OutsideGit(F) == { p \in F : ~UnderTopGit(p) }

\* the destination tree is well formed: no path is both a file and a directory,
\* and every file and directory lies in directories
TreeOK ==
  /\ DOMAIN dest \cap destDirs = {}
  /\ \A p \in DOMAIN dest \cup destDirs : ProperPrefixes(p) \subseteq destDirs

(* ---------------- C1 ---------------- *)

\* C1 (as claimed): after copy() returns for a directory rule with deleteOrphaned
\* and no include/exclude, the destination files outside .git are exactly the
\* source files outside .git, for every replace/template setting.
C1_OrphanCompleteness_AsClaimed ==
  (pc = "done" /\ rule.isDirectory /\ rule.deleteOrphaned /\ Unfiltered)
    => OutsideGit(DOMAIN dest) = OutsideGit(srcTree.files)

\* the source files a replace:false call skips without leaving a file: those
\* whose destination path was a directory before the call
SkippedOnDirectory == { p \in srcTree.files : rule.replace = FALSE /\ p \in dest0.dirs }

\* C1 (amended): after copy() returns for a directory rule with deleteOrphaned
\* and no include/exclude, the destination files outside .git are exactly the
\* source files outside .git, less the source files that replace:false skipped
\* because their destination path existed as a directory.
C1_OrphanCompleteness ==
  (pc = "done" /\ rule.isDirectory /\ rule.deleteOrphaned /\ Unfiltered)
    => OutsideGit(DOMAIN dest) = OutsideGit(srcTree.files) \ SkippedOnDirectory

\* an unfiltered deleteOrphaned call has returned after writing a source file
\* and removing an orphan, and the two file sets agree outside .git
C1_Witness ==
  /\ pc = "done" /\ rule.isDirectory /\ rule.deleteOrphaned /\ Unfiltered
  /\ written # {} /\ removed # {}
  /\ OutsideGit(DOMAIN dest) = OutsideGit(srcTree.files)

(* ---------------- the scope of a rule, as the specification defines it ---------------- *)

\* the two strings of a file under the source root: its root-relative path and
\* its bare file name
RefCandidates(p) ==
  (IF Len(p) = 0 THEN {} ELSE {p}) \cup { <<Basename(Join(Resolve(rule.src), p))>> }

\* the file matches one of the effective patterns of the list
MatchesList(patterns, p) ==
  LET compiled == buildMatcher(patterns, Resolve(rule.src))
  IN  compiled.defined /\ \E c \in RefCandidates(p) : Matcher(compiled, c)

\* the list holds an effective pattern
Effective(patterns) == buildMatcher(patterns, Resolve(rule.src)).defined

\* in scope: passes include (if any) and does not match exclude (if any)
InScopeRef(p) ==
  /\ Effective(rule.include) => MatchesList(rule.include, p)
  /\ ~MatchesList(rule.exclude, p)

(* ---------------- C2 ---------------- *)

\* C2 (as claimed): under replace:false every destination file that exists
\* before copy() still exists with unchanged content afterwards, for any
\* deleteOrphaned and include/exclude setting.
C2_SkipInvariant_AsClaimed ==
  (rule.replace = FALSE /\ pc \in {"done", "failed"})
    => \A p \in dest0.files : p \in DOMAIN dest /\ dest[p] = OldContent(p)

\* C2 (amended): under replace:false the content of a destination file that
\* exists before copy() is never changed, and the file still exists unless the
\* orphan pass of a directory rule with deleteOrphaned removed it, which it
\* does only to files that are no source files.
C2_SkipInvariant ==
  rule.replace = FALSE
    => \A p \in dest0.files :
         IF p \in DOMAIN dest THEN dest[p] = OldContent(p)
         ELSE deleteOrphaned /\ p \in removed /\ p \notin srcTree.files

\* a replace:false call has returned, kept an old file whose source differs,
\* written a new one and removed an orphan
C2_Witness ==
  /\ rule.replace = FALSE /\ pc = "done" /\ written # {} /\ removed # {}
  /\ \E p \in dest0.files \cap srcTree.files : p \in DOMAIN dest /\ dest[p] = OldContent(p)

(* ---------------- C3 ---------------- *)

\* C3 (as claimed): a file whose path matches an exclude pattern is never
\* written to the destination and never deleted from it by the orphan pass.
C3_ExcludeOutOfScope == \A p \in written \cup removed : ~MatchesList(rule.exclude, p)

(* ---------------- C4 ---------------- *)

\* C4: the orphan pass never removes a destination file whose first path
\* segment is .git, whatever the filters are and whether or not the source has
\* the file: every such file of the initial destination is still a file.
C4_GitPreserved ==
  /\ \A p \in removed : ~UnderTopGit(p)
  /\ \A p \in dest0.files : UnderTopGit(p) => p \in DOMAIN dest

\* the orphan pass has run over a destination with a .git file the source
\* lacks, and removed another file
C4_Witness ==
  /\ pc = "done" /\ deleteOrphaned /\ removed # {}
  /\ \E p \in dest0.files : UnderTopGit(p) /\ p \notin srcTree.files /\ p \in DOMAIN dest

(* ---------------- C5 ---------------- *)

\* C5 (as claimed): the orphan pass never deletes a destination file that lies
\* in a directory named .git, wherever the .git segment is in its path.
C5_AnyGitPreserved == \A p \in removed : ~UnderAnyGit(p)

(* ---------------- C6 ---------------- *)

\* C6: with replace:true, a second copy() with unchanged source on the
\* destination the first one left returns as well and leaves the destination
\* files and their contents as the first call left them (at every step of it).
C6_Idempotence ==
  (run = 2 /\ rule.replace) => (pc # "failed" /\ dest = first.files)

\* the second call has returned after writing files, the first having removed an orphan
C6_Witness ==
  /\ run = 2 /\ pc = "done" /\ rule.replace /\ written # {} /\ first.removed # {}
  /\ dest = first.files

(* ---------------- C7 ---------------- *)

\* C7 (as claimed): under a directory rule with a non-empty include list, a
\* file that matches no include pattern is never written to the destination and
\* never deleted from it by the orphan pass.
C7_IncludeScoping ==
  (rule.isDirectory /\ rule.include.defined /\ Len(rule.include.list) > 0)
    => \A p \in written \cup removed : MatchesList(rule.include, p)

(* ---------------- C8 ---------------- *)

\* C8 (as claimed): when copy() has returned for a directory rule, the filter
\* it used passes a file iff the file matches an include pattern (when there are
\* any) and no exclude pattern, and every file it wrote or removed as an orphan
\* is in that scope.
C8_ScopeRule ==
  (pc = "done" /\ rule.isDirectory)
    => /\ \A p \in written \cup removed : InScopeRef(p)
       /\ \A p \in srcTree.files \cup dest0.files :
            FilterFunc(Join(rule.src, p)) <=> InScopeRef(p)

(* ---------------- C9 ---------------- *)

\* what copy() is to write at p: the source bytes, or the template rendered with
\* the declared variables and the repo key
C9_Expected(p) ==
  IF rule.template = "false" THEN SrcContent(p)
  ELSE [kind |-> "rendered", of |-> p,
        ctx |-> (IF rule.template = "vars" THEN {"name"} ELSE {}) \cup {"repo"}]

\* C9: after copy() returns for a directory rule with replace:false, every
\* source file the filter passes whose destination path did not exist holds the
\* source content (rendered when templated), and every one whose destination
\* file existed still holds its old content.
C9_PerFileReplace ==
  (pc = "done" /\ rule.isDirectory /\ rule.replace = FALSE)
    => \A p \in srcTree.files :
         FilterFunc(Join(rule.src, p))
           => IF p \in dest0.files THEN p \in DOMAIN dest /\ dest[p] = OldContent(p)
              ELSE IF p \in dest0.dirs THEN p \notin DOMAIN dest
              ELSE p \in DOMAIN dest /\ dest[p] = C9_Expected(p)

\* a replace:false directory call has returned having written a new file and
\* kept an existing one whose source differs
C9_Witness ==
  /\ pc = "done" /\ rule.isDirectory /\ rule.replace = FALSE
  /\ \E p \in srcTree.files \ (dest0.files \cup dest0.dirs) :
       p \in written /\ dest[p] = C9_Expected(p)
  /\ \E q \in srcTree.files \cap dest0.files :
       FilterFunc(Join(rule.src, q)) /\ dest[q] = OldContent(q)

(* ---------------- C10 ---------------- *)

\* C10 (as claimed): a rule whose include/exclude lists hold no effective
\* pattern ends as the same rule with include and exclude undefined does on the
\* same trees: the same outcome, the same destination files and contents, the
\* same orphans removed.
C10_BlankIsNoFilter ==
  (run = 2 /\ pc \in {"done", "failed"})
    => /\ pc = first.pc
       /\ pc = "done" => (dest = first.files /\ removed = first.removed)

(* ---------------- C11 ---------------- *)

\* C11: copy() removes destination files only for a directory rule with
\* deleteOrphaned: for a single-file rule or a rule with deleteOrphaned false
\* nothing is removed and every file path of the initial destination is still a
\* file path of the destination, at every step of the call.
C11_RemovalFrame ==
  ~(rule.isDirectory /\ rule.deleteOrphaned)
    => (removed = {} /\ dest0.files \subseteq DOMAIN dest)

\* a directory rule without deleteOrphaned has returned after writing, and the
\* destination still holds a file the source lacks
C11_Witness ==
  /\ pc = "done" /\ rule.isDirectory /\ ~rule.deleteOrphaned /\ written # {}
  /\ \E p \in dest0.files : p \notin srcTree.files /\ p \in DOMAIN dest

(* ---------------- C12 ---------------- *)

\* the source files a call of copy() is to write: those in scope, less those
\* replace:false skips because their destination path exists
Eligible(p) ==
  /\ isInScope(p)
  /\ ~(rule.replace = FALSE /\ (p \in dest0.files \/ p \in dest0.dirs))

\* C12: the orphan pass begins only when the copy/render loop has no entry left
\* and every file the rule is to write has been written; the destination listing
\* it takes holds all of those files; and a step that removes a file is a step
\* of the orphan pass and writes nothing.
C12_OrphansAfterWrites ==
  [][ /\ (pc # "orphans" /\ pc' = "orphans")
          => /\ todo = {}
             /\ written = { p \in SrcFileList : Eligible(p) }
             /\ written \subseteq todo'
      /\ (removed' # removed)
          => (pc = "orphans" /\ written' = written) ]_vars

\* the orphan pass is under way after writes: an orphan is removed, destination
\* files are still to be visited
C12_Witness ==
  pc = "orphans" /\ written # {} /\ removed # {} /\ todo # {}

(* ---------------- C16 ---------------- *)

TestedCandidates(p) == Candidates(RelativeOf(rule.src, Join(rule.src, p)))

\* C20 (as claimed): when copy() has returned for a directory rule, the strings
\* tested for every enumerated source file are its root-relative path and its
\* bare file name, for an absolute and for a relative source path alike, and
\* under an exclude list holding the root-relative pattern d/ the file d/a.txt
\* has not been written.
C20_CandidateStrings ==
  (pc = "done" /\ rule.isDirectory)
    => /\ \A p \in srcTree.files : TestedCandidates(p) = {p, <<Basename(p)>>}
       /\ (rule.exclude.defined /\ \E i \in 1..Len(rule.exclude.list) :
                                      rule.exclude.list[i] = <<"d", "">>)
            => <<"d", "a.txt">> \notin written

(* ---------------- readFilesRecursive ---------------- *)

\* most files of a listed tree
MaxListFiles == 3

\* the root-relative file paths of a listed tree: hidden files and files under
\* hidden directories at both levels
ListPaths ==
  FilePaths \cup { <<".env">>, <<"d", ".env">> }

\* the trees readFilesRecursive is called on
ListTrees ==
  LET all == { [files |-> F, dirs |-> {<<>>} \cup DirsOf(F) \cup E] :
                 F \in { X \in SUBSET ListPaths : Cardinality(X) <= MaxListFiles /\ Consistent(X) },
                 E \in { {}, {<<"d">>}, {<<".git">>} } }
  IN  { t \in all : t.files \cap t.dirs = {} }

\* the dir arguments: an absolute path, and a relative one whose own name is hidden
ListDirs == { <<"", "cwd", "tpl">>, <<".github">> }

\* readdir(dir, { recursive: true, withFileTypes: true }): one Dirent for every
\* file and every directory below dir
Dirents(dir, tree) ==
  { [name |-> p[Len(p)], parentPath |-> Join(dir, SubSeq(p, 1, Len(p) - 1)),
     isFile |-> p \in tree.files] : p \in (tree.files \cup tree.dirs) \ {<<>>} }

\* path.relative(dir, path.join(entry.parentPath, entry.name))
relativePath(dir, entry) ==
  Drop(Resolve(Join(entry.parentPath, <<entry.name>>)), Len(Resolve(dir)))

\* the hidden test made on the whole path, the segments of dir included
C18_Mutant_IsHiddenPath(dir, entry) ==
  \E i \in 1..Len(Join(entry.parentPath, <<entry.name>>)) :
     StartsWithDot(Join(entry.parentPath, <<entry.name>>)[i])

\* parts.some((part) => part.startsWith('.')) on relativePath.split(path.sep)
IsHiddenPath(dir, entry) ==
  \E i \in 1..Len(relativePath(dir, entry)) : StartsWithDot(relativePath(dir, entry)[i])

\* readFilesRecursive(dir, includeHidden) is called: readdir returns the entries
ListEnter ==
  /\ listPc = "start"
  /\ entries' = Dirents(listDir, listTree)
  /\ listPc' = "loop"
  /\ UNCHANGED <<listDir, includeHidden, listTree, listed>>
  /\ UNCHANGED notList

\* one iteration of the loop over entries
ListEntry ==
  /\ listPc = "loop"
  /\ \E entry \in entries :
       /\ entries' = entries \ {entry}
       /\ listed' = IF ~entry.isFile THEN listed
                    ELSE IF ~includeHidden /\ IsHiddenPath(listDir, entry) THEN listed
                    ELSE listed \cup { relativePath(listDir, entry) }
  /\ UNCHANGED <<listDir, includeHidden, listTree, listPc>>
  /\ UNCHANGED notList

\* the loop is over: return files
ListReturn ==
  /\ listPc = "loop"
  /\ entries = {}
  /\ listPc' = "done"
  /\ UNCHANGED <<listDir, includeHidden, listTree, entries, listed>>
  /\ UNCHANGED notList

\* copy() is not under way
CopyIdle ==
  /\ rule = [isDirectory |-> FALSE, src |-> <<"a.txt">>, template |-> "false", replace |-> TRUE,
             deleteOrphaned |-> FALSE, include |-> Undefined, exclude |-> Undefined]
  /\ srcTree = MissingTree
  /\ dest0 = MissingTree
  /\ dest = <<>>
  /\ destDirs = {}
  /\ pc = "idle"
  /\ todo = {}
  /\ shouldExist = {}
  /\ written = {}
  /\ removed = {}
  /\ run = 1
  /\ first = [pc |-> "none", files |-> <<>>, removed |-> {}]

InitList ==
  /\ CopyIdle
  /\ OrchIdle
  /\ RenderIdle
  /\ CfgIdle
  /\ RunIdle
  /\ listDir \in ListDirs
  /\ includeHidden \in BOOLEAN
  /\ listTree \in ListTrees
  /\ entries = {}
  /\ listed = {}
  /\ listPc = "start"

NextList == ListEnter \/ ListEntry \/ ListReturn

SpecList == InitList /\ [][NextList]_vars

(* ---------------- C18 ---------------- *)

\* a segment of the root-relative path starts with a dot
HiddenBelowRoot(p) == \E i \in 1..Len(p) : StartsWithDot(p[i])

\* C18: when readFilesRecursive returns, its result is exactly the files of the
\* tree, as root-relative paths, less (with includeHidden false) those with a
\* dot-segment below the root; no directory is in it at any step.
C18_ReadFilesRecursive ==
  /\ listed \cap listTree.dirs = {}
  /\ listPc = "done"
       => listed = { p \in listTree.files : includeHidden \/ ~HiddenBelowRoot(p) }

\* a listing without includeHidden of a tree under a hidden root has returned
\* files at both levels and left a hidden one out
C18_Witness ==
  /\ listPc = "done" /\ ~includeHidden /\ listDir = <<".github">>
  /\ \E p \in listed : Len(p) > 1
  /\ \E p \in listed : Len(p) = 1
  /\ \E p \in listTree.files : HiddenBelowRoot(p) /\ p \notin listed

(* ---------------- forEach over the rules of a repository, processFile ---------------- *)

\* most entries of item.files
MaxRules == 3

\* the dest paths of the rules
DestNames == {"x", "y"}

\* an entry of the array that is undefined
NoRule ==
  [defined |-> FALSE, source |-> "missing", dest |-> "x", deleteOrphaned |-> FALSE, replace |-> TRUE]

\* the rules of a repository: what is at file.source (nothing, a file or a
\* directory), the dest, and the settings processFile reads: deleteOrphaned
\* when the source is missing, replace when it is a file (a setting it does
\* not read is left at its default)
RuleChoices ==
  { f \in [defined : {TRUE}, source : {"missing", "file", "dir"}, dest : DestNames,
           deleteOrphaned : BOOLEAN, replace : BOOLEAN] :
      /\ f.source # "missing" => ~f.deleteOrphaned
      /\ f.source # "file" => f.replace }

\* the arrays forEach is given
Arrays == UNION { [1..n -> RuleChoices \cup {NoRule}] : n \in 0..MaxRules }

\* the states of a callback that has been called and has not settled
InProgress == {"entered", "copy", "add", "commit"}

\* the array is iterated without awaiting the callback: the index moves on at once
C13_Mutant_ForEachStep ==
  /\ outcome = "pending"
  /\ index <= Len(array)
  /\ IF array[index].defined
       THEN procs' = [procs EXCEPT ![index] = "entered"]
       ELSE procs' = procs
  /\ index' = index + 1
  /\ UNCHANGED <<array, outcome, work, staged, commits, warnings, commitEachFile>>
  /\ UNCHANGED notOrch

\* forEach: one pass of the loop head: an undefined item is stepped over, a
\* defined item's callback is called and awaited
ForEachStep ==
  /\ outcome = "pending"
  /\ index <= Len(array)
  /\ IF array[index].defined
       THEN /\ procs[index] = "none"
            /\ procs' = [procs EXCEPT ![index] = "entered"]
            /\ index' = index
       ELSE /\ procs' = procs
            /\ index' = index + 1
  /\ UNCHANGED <<array, outcome, work, staged, commits, warnings, commitEachFile>>
  /\ UNCHANGED notOrch

\* forEach: the awaited callback has settled: go on with the next index, or reject
ForEachResume ==
  /\ outcome = "pending"
  /\ index <= Len(array)
  /\ procs[index] \in {"resolved", "rejected"}
  /\ IF procs[index] = "resolved"
       THEN index' = index + 1 /\ outcome' = outcome
       ELSE index' = index /\ outcome' = "rejected"
  /\ UNCHANGED <<array, procs, work, staged, commits, warnings, commitEachFile>>
  /\ UNCHANGED notOrch

\* forEach: the loop is over
ForEachReturn ==
  /\ outcome = "pending"
  /\ index > Len(array)
  /\ outcome' = "resolved"
  /\ UNCHANGED <<array, index, procs, work, staged, commits, warnings, commitEachFile>>
  /\ UNCHANGED notOrch

\* fs.existsSync(file.source)
fileExists(file) == file.source # "missing"

\* fs.existsSync(localDestination)
destExists(file) == work[file.dest] # "none"

\* a missing source is skipped whatever deleteOrphaned says
C14_Mutant_skipsMissingSource(file) == FALSE

\* if (!file.deleteOrphaned): a missing source is only warned about
skipsMissingSource(file) == ~file.deleteOrphaned

\* git rm -f "<dest>" succeeds: without -r it refuses a directory
GitRmSucceeds(file) == work[file.dest] = "file"

\* the callback of entry i settles or moves on, nothing else changes
Settle(i, state) ==
  /\ procs' = [procs EXCEPT ![i] = state]
  /\ UNCHANGED <<work, staged, commits, warnings>>

\* processFile, up to the call of copy(): the existence checks and the
\* handling of a missing source
PfEnter(i) ==
  /\ procs[i] = "entered"
  /\ LET file == array[i] IN
     IF ~fileExists(file)
       THEN IF skipsMissingSource(file)
              THEN /\ procs' = [procs EXCEPT ![i] = "resolved"]
                   /\ warnings' = warnings \cup {i}
                   /\ UNCHANGED <<work, staged, commits>>
              ELSE IF destExists(file)
                THEN IF GitRmSucceeds(file)
                       THEN /\ work' = [work EXCEPT ![file.dest] = "none"]
                            /\ staged' = staged \cup {file.dest}
                            /\ procs' = [procs EXCEPT ![i] = "commit"]
                            /\ UNCHANGED <<commits, warnings>>
                       ELSE Settle(i, "rejected")
                ELSE Settle(i, "resolved")
       ELSE IF file.source = "file" /\ destExists(file) /\ file.replace = FALSE
              THEN /\ procs' = [procs EXCEPT ![i] = "resolved"]
                   /\ warnings' = warnings \cup {i}
                   /\ UNCHANGED <<work, staged, commits>>
              ELSE Settle(i, "copy")
  /\ UNCHANGED <<array, index, outcome, commitEachFile>>
  /\ UNCHANGED notOrch

\* processFile: await copy(source, dest, isDirectory, file, item). A file over a
\* directory is refused; a directory over a file is refused or, when no file of
\* it is copied, leaves the destination as it is
PfCopy(i) ==
  /\ procs[i] = "copy"
  /\ LET file == array[i] IN
     IF work[file.dest] \in {"none", file.source}
       THEN /\ work' = [work EXCEPT ![file.dest] = file.source]
            /\ procs' = [procs EXCEPT ![i] = "add"]
            /\ UNCHANGED <<staged, commits, warnings>>
       ELSE \/ Settle(i, "rejected")
            \/ file.source = "dir" /\ Settle(i, "add")
  /\ UNCHANGED <<array, index, outcome, commitEachFile>>
  /\ UNCHANGED notOrch

\* processFile: await git.add(file.dest); the copy may have changed nothing
PfAdd(i) ==
  /\ procs[i] = "add"
  /\ \E changed \in BOOLEAN :
       staged' = IF changed THEN staged \cup {array[i].dest} ELSE staged
  /\ procs' = [procs EXCEPT ![i] = "commit"]
  /\ UNCHANGED <<work, commits, warnings>>
  /\ UNCHANGED <<array, index, outcome, commitEachFile>>
  /\ UNCHANGED notOrch

\* processFile: the commit of this rule when COMMIT_EACH_FILE is set
PfCommit(i) ==
  /\ procs[i] = "commit"
  /\ IF commitEachFile /\ staged # {}
       THEN /\ commits' = Append(commits, array[i].dest)
            /\ staged' = {}
       ELSE UNCHANGED <<commits, staged>>
  /\ procs' = [procs EXCEPT ![i] = "resolved"]
  /\ UNCHANGED <<work, warnings>>
  /\ UNCHANGED <<array, index, outcome, commitEachFile>>
  /\ UNCHANGED notOrch

InitOrch ==
  /\ CopyIdle
  /\ ListIdle
  /\ RenderIdle
  /\ CfgIdle
  /\ RunIdle
  /\ array \in Arrays
  /\ index = 1
  /\ procs = [i \in 1..Len(array) |-> "none"]
  /\ outcome = "pending"
  /\ work \in [DestNames -> {"none", "file", "dir"}]
  /\ staged = {}
  /\ commits = <<>>
  /\ warnings = {}
  /\ commitEachFile \in BOOLEAN

NextOrch ==
  \/ ForEachStep
  \/ ForEachResume
  \/ ForEachReturn
  \/ \E i \in 1..Len(array) : PfEnter(i)
  \/ \E i \in 1..Len(array) : PfCopy(i)
  \/ \E i \in 1..Len(array) : PfAdd(i)
  \/ \E i \in 1..Len(array) : PfCommit(i)

SpecOrch == InitOrch /\ [][NextOrch]_vars

(* ---------------- C13 ---------------- *)

\* C13: forEach processes the rules one at a time in the order of the array:
\* at most one callback is under way, the callback of an entry is called only
\* when the callbacks of all defined entries before it have resolved, no
\* callback is ever called for an undefined entry, and when forEach resolves
\* every defined entry's callback has resolved.
C13_Sequential ==
  /\ Cardinality({ i \in 1..Len(array) : procs[i] \in InProgress }) <= 1
  /\ \A i \in 1..Len(array) : ~array[i].defined => procs[i] = "none"
  /\ \A i, j \in 1..Len(array) :
       (i < j /\ array[i].defined /\ procs[j] # "none") => procs[i] = "resolved"
  /\ outcome = "resolved"
       => \A i \in 1..Len(array) : array[i].defined => procs[i] = "resolved"

\* forEach has resolved over an array with two rules and an undefined entry
\* between them
C13_Witness ==
  /\ outcome = "resolved" /\ Len(array) = 3
  /\ ~array[2].defined
  /\ procs = <<"resolved", "none", "resolved">>

(* ---------------- C14 ---------------- *)

\* the source of the rule is missing and the rule does not delete orphans
MissingNoDelete(file) == file.defined /\ file.source = "missing" /\ ~file.deleteOrphaned

\* C14: the callback of a rule whose source is missing and whose deleteOrphaned
\* is false ends in one step that logs a warning and resolves, leaving the
\* working tree, the index and the commits as they are; it never rejects and
\* never reaches copy, add or commit; and forEach then goes on with the next entry.
C14_MissingSourceSkipped ==
  [][ \A i \in 1..Len(array) :
        MissingNoDelete(array[i])
          => /\ (procs[i] = "entered" /\ procs'[i] # "entered")
                  => /\ procs'[i] = "resolved"
                     /\ i \in warnings'
                     /\ UNCHANGED <<work, staged, commits>>
             /\ procs'[i] \in {"none", "entered", "resolved"}
             /\ (procs[i] = "resolved" /\ index = i /\ outcome = "pending")
                  => (index' = i + 1 /\ outcome' = "pending") ]_vars

\* a rule with a missing source, no deleteOrphaned and an existing destination
\* was skipped with a warning, and the rule after it has been processed
C14_Witness ==
  /\ Len(array) >= 2
  /\ MissingNoDelete(array[1]) /\ work[array[1].dest] # "none"
  /\ procs[1] = "resolved" /\ 1 \in warnings
  /\ array[2].defined /\ procs[2] = "resolved" /\ 2 \notin warnings

(* ---------------- C15 ---------------- *)

\* the source of the rule is missing and the rule deletes orphans
MissingDelete(file) == file.defined /\ file.source = "missing" /\ file.deleteOrphaned

\* C15: the callback of a rule whose source is missing and whose deleteOrphaned
\* is true removes the destination from the working tree when it exists, be
\* it a file or a directory, and changes nothing when it does not exist; it
\* never copies and never rejects.
C15_MissingSourceRemovesDest ==
  [][ \A i \in 1..Len(array) :
        MissingDelete(array[i])
          => /\ (procs[i] = "entered" /\ procs'[i] # "entered")
                  => IF work[array[i].dest] # "none"
                       THEN work' = [work EXCEPT ![array[i].dest] = "none"]
                       ELSE UNCHANGED <<work, staged, commits>> /\ procs'[i] = "resolved"
             /\ procs'[i] \notin {"copy", "add", "rejected"} ]_vars

(* ---------------- templated writes over several repositories ---------------- *)

\* the most repositories of a run, and the most files a rule renders
MaxRepos == 3
MaxRenderFiles == 2

\* item.repo: the RepoInfo of a repository, named by its uniqueName
RepoInfos == {"h/u/r1@default", "h/u/r2@default"}

\* the runs: the repositories a rule is applied to, in order
RepoRuns == UNION { [1..n -> RepoInfos] : n \in 1..MaxRepos }

\* the objects a template setting can be: no variable, one variable, and a
\* variable that is itself named repo. An object is the set of its
\* <<key, value>> pairs
TemplateObjects == { {}, {<<"name", "v">>}, {<<"name", "v">>, <<"repo", "mine">>} }

\* file.template when it is truthy: true (not an object, no variables), or an
\* object of declared variables
TemplateSettings ==
  {[object |-> FALSE, vars |-> {}]} \cup {[object |-> TRUE, vars |-> o] : o \in TemplateObjects}

\* object[key] = value
SetKey(object, key, value) == {kv \in object : kv[1] # key} \cup {<<key, value>>}

\* copy: const templateContext = typeof template === 'object' ? template : {}
\* (a reference to the object of the rule, or an object of its own)
ContextOfTemplate ==
  IF template.object
    THEN [ref |-> "template", own |-> {}]
    ELSE [ref |-> "own", own |-> {}]

\* the object templateContext refers to
Deref == IF templateContext.ref = "template" THEN templateObj ELSE templateContext.own

C17_Mutant_WriteContext(repo) ==
  IF \E kv \in Deref : kv[1] = "repo" THEN Deref ELSE SetKey(Deref, "repo", repo)

\* write: templateContext['repo'] = repo, on the object that was passed
WriteContext(repo) == SetKey(Deref, "repo", repo)

\* processRepo for the next repository reaches copy() with a truthy template
RenderEnter ==
  /\ renderPc = "between"
  /\ repoAt <= Len(repos)
  /\ templateContext' = ContextOfTemplate
  /\ \E n \in 1..MaxRenderFiles : filesLeft' = n
  /\ renderPc' = "copy"
  /\ UNCHANGED <<repos, repoAt, template, templateObj, renders>>
  /\ UNCHANGED notRender

\* copy: await write(srcPath, destPath, templateContext, item.repo)
RenderWrite ==
  /\ renderPc = "copy"
  /\ filesLeft > 0
  /\ LET context == WriteContext(repos[repoAt]) IN
       /\ IF templateContext.ref = "template"
            THEN templateObj' = context /\ UNCHANGED templateContext
            ELSE templateContext' = [templateContext EXCEPT !.own = context]
                 /\ UNCHANGED templateObj
       /\ renders' = Append(renders, [at |-> repoAt, context |-> context])
  /\ filesLeft' = filesLeft - 1
  /\ UNCHANGED <<repos, repoAt, template, renderPc>>
  /\ UNCHANGED notRender

\* copy returns and run goes on with the next repository
RenderReturn ==
  /\ renderPc = "copy"
  /\ filesLeft = 0
  /\ templateContext' = [ref |-> "none", own |-> {}]
  /\ repoAt' = repoAt + 1
  /\ renderPc' = IF repoAt = Len(repos) THEN "done" ELSE "between"
  /\ UNCHANGED <<repos, template, templateObj, filesLeft, renders>>
  /\ UNCHANGED notRender

InitRender ==
  /\ CopyIdle
  /\ ListIdle
  /\ OrchIdle
  /\ CfgIdle
  /\ RunIdle
  /\ repos \in RepoRuns
  /\ repoAt = 1
  /\ template \in TemplateSettings
  /\ templateObj = template.vars
  /\ templateContext = [ref |-> "none", own |-> {}]
  /\ filesLeft = 0
  /\ renders = <<>>
  /\ renderPc = "between"

NextRender ==
  \/ RenderEnter
  \/ RenderWrite
  \/ RenderReturn

SpecRender == InitRender /\ [][NextRender]_vars

(* ---------------- C17 ---------------- *)

\* C17: every call of nunjucks.render gets the variables the rule declares
\* (none when template is true) with the key repo bound to the RepoInfo of the
\* repository being synced at that call, for each repository of the run, though
\* the repositories share the template object of the rule.
C17_RenderContext ==
  \A k \in 1..Len(renders) :
    /\ renders[k].context = SetKey(template.vars, "repo", repos[renders[k].at])
    /\ \A kv \in renders[k].context : kv[1] = "repo" => kv[2] = repos[renders[k].at]

\* a rule with a declared variable was rendered for two different
\* repositories one after the other, with more than one file
C17_Witness ==
  /\ renderPc = "done"
  /\ Len(repos) >= 2 /\ repos[1] # repos[2]
  /\ template.object /\ template.vars = {<<"name", "v">>}
  /\ \E k \in 1..Len(renders) : renders[k].at = 1
  /\ \E k \in 2..Len(renders) : renders[k].at = 2 /\ renders[k - 1].at = 2

(* ---------------- parseConfig ---------------- *)

\* the most entries of a configuration: top-level keys, and repositories of groups
MaxEntries == 3

\* context.GITHUB_SERVER_URL's host
ServerHost == "h"

\* repository names as written: u/r, u/r@default, u/r@main and https://h/u/r
WrittenNames ==
  { [url |-> FALSE, host |-> "", user |-> "u", name |-> "r", branch |-> ""],
    [url |-> FALSE, host |-> "", user |-> "u", name |-> "r", branch |-> "default"],
    [url |-> FALSE, host |-> "", user |-> "u", name |-> "r", branch |-> "main"],
    [url |-> TRUE, host |-> "h", user |-> "u", name |-> "r", branch |-> ""] }

\* group.branchSuffix as written
BranchSuffixes == {"", "s"}

\* parseRepoName: host, user, name and branch of a written name
parseRepoName(fullRepo) ==
  [host |-> IF fullRepo.url THEN fullRepo.host ELSE ServerHost,
   user |-> fullRepo.user,
   name |-> fullRepo.name,
   branch |-> IF fullRepo.branch = "" THEN "default" ELSE fullRepo.branch]

\* repo.uniqueName: `${host}/${user}/${name}@${branch}`
uniqueName(repo) == <<repo.host, "/", repo.user, "/", repo.name, "@", repo.branch>>

\* the entries parseConfig visits: a top-level key with its files, or one
\* repository of a group with the files and the branchSuffix of the group
ConfigEntries ==
  { e \in [group : BOOLEAN, name : WrittenNames, branchSuffix : BranchSuffixes] :
      ~e.group => e.branchSuffix = "" }

\* the configurations: the keys of a YAML mapping are distinct, and the
\* groups are the value of the one key named group
ConfigObjects ==
  { c \in UNION { [1..n -> ConfigEntries] : n \in 0..MaxEntries } :
      /\ \A i, j \in DOMAIN c : (i < j /\ ~c[i].group /\ ~c[j].group) => c[i].name # c[j].name
      /\ \A i, j, k \in DOMAIN c : (i < j /\ j < k /\ c[i].group /\ c[k].group) => c[j].group }

\* parseFiles of the k-th entry: its file rules, named by the entry
parseFiles(k) == <<k>>

\* the key of a group's repository in result: `${repo.uniqueName}|${branchSuffix}`
GroupResultKey(repo, branchSuffix) == uniqueName(repo) \o <<"|", branchSuffix>>

\* the key of a top-level key's repository in result: repo.uniqueName
KeyResultKey(repo) == uniqueName(repo)

\* the index of the RepoConfig stored under a key, 0 when there is none
Existing(key) ==
  IF \E i \in 1..Len(result) : result[i].key = key
    THEN CHOOSE i \in 1..Len(result) : result[i].key = key
    ELSE 0

\* existing.files.push(...files), or result[key] = {repo, files, branchSuffix}
Store(key, repo, files, branchSuffix) ==
  IF Existing(key) # 0
    THEN result' = [result EXCEPT ![Existing(key)].files = @ \o files]
    ELSE result' = Append(result, [key |-> key, repo |-> repo, files |-> files,
                                   branchSuffix |-> branchSuffix])

\* parseConfig is called
ParseEnter ==
  /\ cfgPc = "idle"
  /\ cfgPc' = "keys"
  /\ UNCHANGED <<configObject, result, cfgAt>>
  /\ UNCHANGED notCfg

\* parseConfig: one repository of a group
ParseGroupRepo ==
  /\ cfgPc = "keys"
  /\ cfgAt <= Len(configObject)
  /\ configObject[cfgAt].group
  /\ LET repo == parseRepoName(configObject[cfgAt].name)
         branchSuffix == configObject[cfgAt].branchSuffix
     IN Store(GroupResultKey(repo, branchSuffix), repo, parseFiles(cfgAt), branchSuffix)
  /\ cfgAt' = cfgAt + 1
  /\ UNCHANGED <<configObject, cfgPc>>
  /\ UNCHANGED notCfg

\* parseConfig: one top-level key
ParseKey ==
  /\ cfgPc = "keys"
  /\ cfgAt <= Len(configObject)
  /\ ~configObject[cfgAt].group
  /\ LET repo == parseRepoName(configObject[cfgAt].name)
     IN Store(KeyResultKey(repo), repo, parseFiles(cfgAt), "")
  /\ cfgAt' = cfgAt + 1
  /\ UNCHANGED <<configObject, cfgPc>>
  /\ UNCHANGED notCfg

\* parseConfig: return Object.values(result)
ParseReturn ==
  /\ cfgPc = "keys"
  /\ cfgAt > Len(configObject)
  /\ cfgPc' = "done"
  /\ UNCHANGED <<configObject, result, cfgAt>>
  /\ UNCHANGED notCfg

InitCfg ==
  /\ CopyIdle
  /\ ListIdle
  /\ OrchIdle
  /\ RenderIdle
  /\ RunIdle
  /\ configObject \in ConfigObjects
  /\ result = <<>>
  /\ cfgAt = 1
  /\ cfgPc = "idle"

NextCfg ==
  \/ ParseEnter
  \/ ParseGroupRepo
  \/ ParseKey
  \/ ParseReturn

SpecCfg == InitCfg /\ [][NextCfg]_vars

(* ---------------- C19 ---------------- *)

\* the sync target of a RepoConfig or of an entry: unique name and branchSuffix
TargetOf(repo, branchSuffix) == <<uniqueName(repo), branchSuffix>>

\* the file rules of the first n entries that name the target, in order
RECURSIVE FilesFor(_, _)
FilesFor(target, n) ==
  IF n = 0 THEN <<>>
  ELSE FilesFor(target, n - 1) \o
       (IF TargetOf(parseRepoName(configObject[n].name), configObject[n].branchSuffix) = target
          THEN parseFiles(n) ELSE <<>>)

\* C19: parseConfig returns at most one RepoConfig per sync target, one for
\* each target named, and its files are the file rules of all the entries
\* naming the target, top-level keys or groups, in configuration order.
C19_OnePerTarget ==
  cfgPc = "done" =>
    /\ \A i, j \in 1..Len(result) :
         i # j => TargetOf(result[i].repo, result[i].branchSuffix)
                    # TargetOf(result[j].repo, result[j].branchSuffix)
    /\ \A i \in 1..Len(result) :
         result[i].files
           = FilesFor(TargetOf(result[i].repo, result[i].branchSuffix), Len(configObject))
    /\ \A n \in 1..Len(configObject) :
         \E i \in 1..Len(result) :
           TargetOf(result[i].repo, result[i].branchSuffix)
             = TargetOf(parseRepoName(configObject[n].name), configObject[n].branchSuffix)

(* ---------------- C21 ---------------- *)

\* C21: when copy() returns for a single-file rule, templated or not, the file
\* was written exactly when its file name passes include (if there is an
\* effective include pattern) and matches no exclude pattern, and it is not
\* the case that replace is false and the destination existed.
C21_SingleFileFilter ==
  (pc = "done" /\ ~rule.isDirectory)
    => (<<>> \in written
          <=> /\ InScopeRef(<<>>)
              /\ ~(rule.replace = FALSE /\ (<<>> \in dest0.files \/ <<>> \in dest0.dirs)))

(* ---------------- C22 ---------------- *)

\* the branch is one of the three directory copies without template
PlainDirCopy == Branch \in {"copyNoReplace", "copyFiltered", "copyBulk"}

\* the reference of the copy phase: p is to hold the content of the source
Copied(p) ==
  /\ p \in srcTree.files
  /\ isInScope(p)
  /\ ~(rule.replace = FALSE /\ (p \in dest0.files \/ p \in dest0.dirs))

ScopeWithoutDirectory(p) ==
  LET root == Resolve(rule.src)
      compiledExclude == buildMatcher(rule.exclude, root)
      compiledInclude == buildMatcher(rule.include, root)
      candidates == Candidates(RelativeOf(rule.src, Join(rule.src, p)))
  IN  \/ ~shouldFilter
      \/ /\ compiledInclude.defined => \E c \in candidates : Matcher(compiledInclude, c)
         /\ compiledExclude.defined => ~\E c \in candidates : Matcher(compiledExclude, c)

\* C23: in the orphan pass the in-scope decision for a destination file is the
\* same whether the source holds a file, a directory or nothing at its
\* relative path: it is the decision the patterns give for the path, so a
\* destination file that is removed is one the patterns put in scope.
C23_ScopeIgnoresSource ==
  (pc \in {"orphans", "done"} /\ deleteOrphaned)
    => /\ \A p \in dest0.files : isInScope(p) = ScopeWithoutDirectory(p)
       /\ \A p \in removed : ScopeWithoutDirectory(p)

(* ---------------- run() and processRepo() ---------------- *)

\* the most repositories of the configuration, and the most rules of a repository
MaxRunRepos == 2
MaxRunRules == 2

\* the settings of the action that processRepo and run read
Settings ==
  [DRY_RUN : BOOLEAN, SKIP_PR : BOOLEAN, OVERWRITE_EXISTING_PR : BOOLEAN,
   SKIP_CLEANUP : BOOLEAN, COMMIT_EACH_FILE : BOOLEAN]

\* a repository before run(): no open pull request on its PR branch (none), or
\* one with the body of an earlier sync (old); nothing has been done yet
FreshRepo(pr) ==
  [pr0 |-> pr, pr |-> pr, inited |-> FALSE, workdir |-> FALSE, calls |-> 0, threw |-> FALSE,
   changed |-> FALSE, commits |-> 0, pushed |-> 0, prCalls |-> 0, extras |-> FALSE,
   failed |-> FALSE, cleaned |-> 0]

\* the value initRepo and cleanupRepo give this.existingPr: undefined
C28_Mutant_ResetExistingPr == git.existingPr

ResetExistingPr == 0

\* the statement after which the try block is left for the catch block
Throw(log) ==
  /\ runPc' = "catch"
  /\ repoLog' = log
  /\ UNCHANGED <<git, proc>>

\* if (existingPr && !DRY_RUN) await git.setPrWarning()
C26_Mutant_WarnsExistingPr(existingPr) == existingPr # 0

WarnsExistingPr(existingPr) == existingPr # 0 /\ ~settings.DRY_RUN

\* if (!hasChanges && modified.length < 1): nothing has changed
C27_Mutant_NothingChanged(hasChanges, modified) == ~hasChanges /\ modified < 0

NothingChanged(hasChanges, modified) == ~hasChanges /\ modified < 1

\* git.initRepo: the repo values are reset and the repository is cloned
InitRepo ==
  /\ runPc = "initRepo"
  /\ git' = [existingPr |-> ResetExistingPr, prBranch |-> 0, workingDir |-> runAt]
  /\ proc' = [existingPr |-> 0, modified |-> 0, dirty |-> FALSE, rule |-> 1]
  /\ \E ok \in BOOLEAN :
       /\ repoLog' = [repoLog EXCEPT ![runAt].inited = TRUE, ![runAt].workdir = ok]
       /\ runPc' = IF ~ok THEN "catch" ELSE IF settings.SKIP_PR THEN "rules" ELSE "prBranch"
  /\ UNCHANGED <<settings, numRules, runAt, tmpDir>>
  /\ UNCHANGED notRun

\* git.createPrBranch
CreatePrBranch ==
  /\ runPc = "prBranch"
  /\ \E ok \in BOOLEAN :
       IF ok
         THEN /\ git' = [git EXCEPT !.prBranch = runAt]
              /\ runPc' = IF settings.OVERWRITE_EXISTING_PR THEN "findPr" ELSE "rules"
              /\ UNCHANGED <<repoLog, proc>>
         ELSE Throw(repoLog)
  /\ UNCHANGED <<settings, numRules, runAt, tmpDir>>
  /\ UNCHANGED notRun

\* existingPr = await git.findExistingPr(): the open pull request of the PR
\* branch, if any, is recorded in this.existingPr, and this.existingPr is returned
FindExistingPr ==
  /\ runPc = "findPr"
  /\ \E ok \in BOOLEAN :
       IF ok
         THEN LET found == IF repoLog[git.prBranch].pr # "none"
                             THEN git.prBranch ELSE git.existingPr
              IN  /\ git' = [git EXCEPT !.existingPr = found]
                  /\ proc' = [proc EXCEPT !.existingPr = found]
                  /\ runPc' = IF WarnsExistingPr(found) THEN "warn" ELSE "rules"
                  /\ UNCHANGED repoLog
         ELSE Throw(repoLog)
  /\ UNCHANGED <<settings, numRules, runAt, tmpDir>>
  /\ UNCHANGED notRun

\* git.setPrWarning: the warning is put before the body of this.existingPr
SetPrWarning ==
  /\ runPc = "warn"
  /\ \E ok \in BOOLEAN :
       IF ok
         THEN /\ repoLog' = IF git.existingPr = 0 THEN repoLog
                            ELSE [repoLog EXCEPT ![git.existingPr].pr = "warned"]
              /\ runPc' = "rules"
              /\ UNCHANGED <<git, proc>>
         ELSE Throw(repoLog)
  /\ UNCHANGED <<settings, numRules, runAt, tmpDir>>
  /\ UNCHANGED notRun

\* one callback of forEach(item.files, ...): processFile finds nothing to
\* change, or changes the working tree (and commits under COMMIT_EACH_FILE), or throws
ProcessRule ==
  /\ runPc = "rules"
  /\ proc.rule <= numRules
  /\ LET called == [repoLog EXCEPT ![runAt].calls = @ + 1] IN
     \E effect \in {"same", "changed", "throws"} :
       CASE effect = "throws" ->
              Throw([called EXCEPT ![runAt].threw = TRUE])
         [] effect = "same" ->
              /\ repoLog' = called
              /\ proc' = [proc EXCEPT !.rule = @ + 1]
              /\ UNCHANGED <<git, runPc>>
         [] OTHER ->
              /\ IF settings.COMMIT_EACH_FILE
                   THEN /\ repoLog' = [called EXCEPT ![runAt].changed = TRUE,
                                                     ![runAt].commits = @ + 1]
                        /\ proc' = [proc EXCEPT !.rule = @ + 1, !.modified = @ + 1]
                   ELSE /\ repoLog' = [called EXCEPT ![runAt].changed = TRUE]
                        /\ proc' = [proc EXCEPT !.rule = @ + 1, !.dirty = TRUE]
              /\ UNCHANGED <<git, runPc>>
  /\ UNCHANGED <<settings, numRules, runAt, tmpDir>>
  /\ UNCHANGED notRun

\* forEach has resolved: the dry-run return, git.hasChanges and the return
\* when nothing has changed
AfterRules ==
  /\ runPc = "rules"
  /\ proc.rule > numRules
  /\ \E ok \in BOOLEAN :
       IF ~ok THEN Throw(repoLog)
       ELSE /\ runPc' = IF settings.DRY_RUN THEN "finally"
                        ELSE IF NothingChanged(proc.dirty, proc.modified)
                          THEN IF proc.existingPr # 0 THEN "unwarn" ELSE "finally"
                        ELSE IF proc.dirty THEN "commit"
                        ELSE "push"
            /\ UNCHANGED <<repoLog, git, proc>>
  /\ UNCHANGED <<settings, numRules, runAt, tmpDir>>
  /\ UNCHANGED notRun

\* git.removePrWarning: the body of this.existingPr without the warning
RemovePrWarning ==
  /\ runPc = "unwarn"
  /\ \E ok \in BOOLEAN :
       IF ok
         THEN /\ repoLog' = IF git.existingPr = 0 THEN repoLog
                            ELSE [repoLog EXCEPT ![git.existingPr].pr = "old"]
              /\ runPc' = "finally"
              /\ UNCHANGED <<git, proc>>
         ELSE Throw(repoLog)
  /\ UNCHANGED <<settings, numRules, runAt, tmpDir>>
  /\ UNCHANGED notRun

\* the commit of the remaining changes: git.commit and modified.push
FinalCommit ==
  /\ runPc = "commit"
  /\ \E ok \in BOOLEAN :
       IF ok
         THEN /\ repoLog' = [repoLog EXCEPT ![runAt].commits = @ + 1]
              /\ proc' = [proc EXCEPT !.modified = @ + 1, !.dirty = FALSE]
              /\ runPc' = "push"
              /\ UNCHANGED git
         ELSE Throw(repoLog)
  /\ UNCHANGED <<settings, numRules, runAt, tmpDir>>
  /\ UNCHANGED notRun

\* git.push
Push ==
  /\ runPc = "push"
  /\ \E ok \in BOOLEAN :
       IF ok
         THEN /\ repoLog' = [repoLog EXCEPT ![runAt].pushed = @ + 1]
              /\ runPc' = IF settings.SKIP_PR THEN "finally" ELSE "createPr"
              /\ UNCHANGED <<git, proc>>
         ELSE Throw(repoLog)
  /\ UNCHANGED <<settings, numRules, runAt, tmpDir>>
  /\ UNCHANGED notRun

\* git.createOrUpdatePr: this.existingPr is updated, or a pull request is
\* created for the PR branch and recorded in this.existingPr
CreateOrUpdatePr ==
  /\ runPc = "createPr"
  /\ \E ok \in BOOLEAN :
       IF ok
         THEN LET target == IF git.existingPr # 0 THEN git.existingPr ELSE git.prBranch
              IN  /\ repoLog' = [repoLog EXCEPT ![target].pr = "synced", ![runAt].prCalls = @ + 1]
                  /\ git' = [git EXCEPT !.existingPr = target]
                  /\ runPc' = "extras"
                  /\ UNCHANGED proc
         ELSE Throw(repoLog)
  /\ UNCHANGED <<settings, numRules, runAt, tmpDir>>
  /\ UNCHANGED notRun

\* git.addPrLabels, addPrAssignees, addPrReviewers, addPrTeamReviewers on
\* this.existingPr, when any is configured
AddPrExtras ==
  /\ runPc = "extras"
  /\ \E configured, ok \in BOOLEAN :
       IF ~configured
         THEN runPc' = "finally" /\ UNCHANGED <<repoLog, git, proc>>
       ELSE IF ok
         THEN /\ repoLog' = IF git.existingPr = 0 THEN repoLog
                            ELSE [repoLog EXCEPT ![git.existingPr].extras = TRUE]
              /\ runPc' = "finally"
              /\ UNCHANGED <<git, proc>>
         ELSE Throw(repoLog)
  /\ UNCHANGED <<settings, numRules, runAt, tmpDir>>
  /\ UNCHANGED notRun

\* catch (err): core.setFailed(error.message)
Catch ==
  /\ runPc = "catch"
  /\ repoLog' = [repoLog EXCEPT ![runAt].failed = TRUE]
  /\ runPc' = "finally"
  /\ UNCHANGED <<settings, numRules, git, proc, runAt, tmpDir>>
  /\ UNCHANGED notRun

\* only a repository that did not fail is cleaned up
C25_Mutant_CleanupRepo ==
  /\ runPc = "finally"
  /\ repoLog' = IF repoLog[runAt].failed THEN repoLog
                ELSE [repoLog EXCEPT ![runAt].cleaned = @ + 1, ![runAt].workdir = FALSE]
  /\ git' = [git EXCEPT !.existingPr = ResetExistingPr, !.prBranch = 0]
  /\ runAt' = runAt + 1
  /\ runPc' = IF runAt < Len(repoLog) THEN "initRepo" ELSE "tmp"
  /\ UNCHANGED <<settings, numRules, proc, tmpDir>>
  /\ UNCHANGED notRun

\* finally: git.cleanupRepo removes this.workingDir (its second argument is
\* not a parameter of the method) and resets the repo values; processRepo
\* returns and forEach of run goes on with the next repository
CleanupRepo ==
  /\ runPc = "finally"
  /\ repoLog' = [repoLog EXCEPT ![runAt].cleaned = @ + 1, ![git.workingDir].workdir = FALSE]
  /\ git' = [git EXCEPT !.existingPr = ResetExistingPr, !.prBranch = 0]
  /\ runAt' = runAt + 1
  /\ runPc' = IF runAt < Len(repoLog) THEN "initRepo" ELSE "tmp"
  /\ UNCHANGED <<settings, numRules, proc, tmpDir>>
  /\ UNCHANGED notRun

\* run, after the repositories: return when SKIP_CLEANUP, else remove(TMP_DIR)
RunEnd ==
  /\ runPc = "tmp"
  /\ tmpDir' = IF settings.SKIP_CLEANUP THEN tmpDir ELSE FALSE
  /\ runPc' = "ended"
  /\ UNCHANGED <<settings, numRules, repoLog, git, proc, runAt>>
  /\ UNCHANGED notRun

InitRun ==
  /\ CopyIdle
  /\ ListIdle
  /\ OrchIdle
  /\ RenderIdle
  /\ CfgIdle
  /\ settings \in Settings
  /\ numRules \in 1..MaxRunRules
  /\ repoLog \in UNION { [1..n -> {FreshRepo("none"), FreshRepo("old")}] : n \in 1..MaxRunRepos }
  /\ git = [existingPr |-> 0, prBranch |-> 0, workingDir |-> 0]
  /\ proc = [existingPr |-> 0, modified |-> 0, dirty |-> FALSE, rule |-> 1]
  /\ runAt = 1
  /\ runPc = "initRepo"
  /\ tmpDir = TRUE

NextRun ==
  \/ InitRepo
  \/ CreatePrBranch
  \/ FindExistingPr
  \/ SetPrWarning
  \/ ProcessRule
  \/ AfterRules
  \/ RemovePrWarning
  \/ FinalCommit
  \/ Push
  \/ CreateOrUpdatePr
  \/ AddPrExtras
  \/ Catch
  \/ CleanupRepo
  \/ RunEnd

SpecRun == InitRun /\ [][NextRun]_vars

(* ---------------- vocabulary of run() ---------------- *)

\* processRepo has returned for the i-th repository
Processed(i) == runAt > i

\* the repositories of the run
RepoIds == 1..Len(repoLog)

(* ---------------- C24 ---------------- *)

\* what holds of a repository one of whose rules threw, once processRepo has returned
C24_AfterThrow ==
  \A i \in RepoIds :
    (repoLog[i].threw /\ Processed(i))
      => /\ repoLog[i].pushed = 0
         /\ repoLog[i].prCalls = 0 /\ ~repoLog[i].extras
         /\ repoLog[i].pr = repoLog[i].pr0
         /\ repoLog[i].failed
         /\ runPc = "ended" => \A j \in RepoIds : repoLog[j].inited

\* C24: once a rule of a repository has thrown no further rule of that
\* repository is processed; when processRepo has returned nothing was pushed,
\* the pull request of the repository is as it was before the run (none
\* created, none updated), setFailed was called, and run goes on to process
\* the repositories that follow.
C24_RuleFailure ==
  [][ /\ C24_AfterThrow'
      /\ \A i \in RepoIds : repoLog[i].threw => repoLog'[i].calls = repoLog[i].calls ]_vars

(* ---------------- C25 ---------------- *)

\* C25: cleanupRepo runs exactly once for every repository processRepo
\* handles, whatever the exit path: it has run once when processRepo has
\* returned and not before, nothing happens on the repository or its pull
\* request after it, and initRepo of a repository starts only when every
\* repository before it has been cleaned up.
C25_CleanupOnce ==
  [][ /\ \A i \in RepoIds :
           /\ repoLog'[i].cleaned = (IF runAt' > i THEN 1 ELSE 0)
           /\ repoLog[i].cleaned = 1 => repoLog'[i] = repoLog[i]
           /\ (repoLog'[i].inited /\ ~repoLog[i].inited)
                => \A j \in 1..(i - 1) : repoLog[j].cleaned = 1
      /\ runPc' = "ended" => \A i \in RepoIds : repoLog'[i].inited ]_vars

\* the run has ended after a repository that failed in a rule and a
\* repository that was pushed, each cleaned up once
C25_Witness ==
  /\ runPc = "ended" /\ Len(repoLog) = 2
  /\ repoLog[1].threw /\ repoLog[1].failed /\ repoLog[1].cleaned = 1
  /\ repoLog[2].pushed = 1 /\ ~repoLog[2].failed /\ repoLog[2].cleaned = 1

(* ---------------- C26 ---------------- *)

\* C26: under DRY_RUN no repository is pushed, createOrUpdatePr is not
\* called, no label, assignee or reviewer is added, and the pull request of
\* every repository is as it was before the run (no warning in its body).
C26_DryRun ==
  settings.DRY_RUN
    => \A i \in RepoIds :
         /\ repoLog[i].pushed = 0
         /\ repoLog[i].prCalls = 0 /\ ~repoLog[i].extras
         /\ repoLog[i].pr = repoLog[i].pr0

\* a dry run has ended in which an open pull request was found for a
\* repository whose rules changed files
C26_Witness ==
  /\ settings.DRY_RUN /\ settings.OVERWRITE_EXISTING_PR /\ ~settings.SKIP_PR
  /\ runPc = "ended"
  /\ \E i \in RepoIds :
       repoLog[i].pr0 = "old" /\ repoLog[i].changed /\ ~repoLog[i].failed
         /\ repoLog[i].calls = numRules

(* ---------------- C27 ---------------- *)

\* C27: a repository is pushed only after a commit was created for it in this
\* run, and for a repository none of whose rules changed anything nothing is
\* committed or pushed and createOrUpdatePr is not called.
C27_PushNeedsCommit ==
  \A i \in RepoIds :
    /\ repoLog[i].pushed > 0 => repoLog[i].commits > 0
    /\ ~repoLog[i].changed
         => repoLog[i].commits = 0 /\ repoLog[i].pushed = 0 /\ repoLog[i].prCalls = 0

\* the run has ended with one repository pushed after a commit and another
\* whose rules all ran and changed nothing
C27_Witness ==
  /\ runPc = "ended"
  /\ \E i, j \in RepoIds :
       /\ repoLog[i].pushed = 1 /\ repoLog[i].commits > 0
       /\ ~repoLog[j].changed /\ ~repoLog[j].failed /\ repoLog[j].calls = numRules
       /\ repoLog[j].pushed = 0

(* ---------------- C28 ---------------- *)

\* C28: this.existingPr is at every step undefined or the pull request of the
\* repository being processed, so createOrUpdatePr, the labels and the
\* assignees never reach the pull request of an earlier repository.
C28_OwnPullRequest == git.existingPr \in {0, runAt}

\* createOrUpdatePr has run for the second repository after the pull request
\* of the first one was updated by its own processing
C28_Witness ==
  /\ runAt = 2 /\ runPc = "extras" /\ git.existingPr = 2
  /\ repoLog[1].pr0 = "old" /\ repoLog[1].pr = "synced" /\ repoLog[1].prCalls = 1
  /\ repoLog[2].prCalls = 1

(* ---------------- C29 ---------------- *)

\* C29: when processRepo has returned for a repository, the body of its pull
\* request does not carry the resync warning.
C29_WarningRemoved ==
  \A i \in RepoIds : Processed(i) => repoLog[i].pr # "warned"

(* ---------------- C30 ---------------- *)

\* C30: under SKIP_CLEANUP no step removes the working directory of a
\* repository or TMP_DIR.
C30_SkipCleanup ==
  [][ settings.SKIP_CLEANUP
        => /\ tmpDir' = tmpDir
           /\ \A i \in RepoIds : repoLog[i].workdir => repoLog'[i].workdir ]_vars

====
